---- MODULE Spec2Model ----
(***************************************************************************)
(* Release manager of .github/scripts/release.py: one run of               *)
(* ReleaseManager.__init__ and ReleaseManager.main against a local clone   *)
(* and its remote, command by command.                                     *)
(***************************************************************************)
EXTENDS Integers, Sequences, FiniteSets, TLC

\* ------------------------------------------------------------------------
\* Bounds of the model
\* ------------------------------------------------------------------------
MaxInitTags == 2
MaxCommit == 2
MaxRuns == 2
MaxComp == 1
MaxLog == 2
MaxMsg == 4
MaxWords == 2
MaxTitle == 2
MaxBody == 51

\* Python's None, where the value is a tag name or a record ...
None == [none |-> TRUE]
\* ... and where it is a string.
NoneStr == "<None>"

Commits == 1..MaxCommit

\* ------------------------------------------------------------------------
\* Tag names.  A name is kept as its shape and the numbers written in it:
\*   ver  v<major>.<minor>.<patch>          pre  v<major>.<minor>.<patch>-rc1
\*   maj  v<major>                          word vnext
\* ------------------------------------------------------------------------
Ver(a, b, c) == [shape |-> "ver", major |-> a, minor |-> b, patch |-> c]
Pre(a, b, c) == [shape |-> "pre", major |-> a, minor |-> b, patch |-> c]
Maj(a) == [shape |-> "maj", major |-> a, minor |-> 0, patch |-> 0]
Word == [shape |-> "word", major |-> 0, minor |-> 0, patch |-> 0]

\* class VersionType
VersionType == {"major", "minor", "patch"}

\* class ReleaseContext
ReleaseContext == {"dependabot", "manual"}

\* Order of `git tag --sort=version:refname` (git's versioncmp): digit runs
\* compare as numbers, a name that is a prefix of another sorts before it,
\* a letter sorts after a digit.
VersionKey(t) ==
    IF t.shape = "word" THEN <<1, 0, 0, 0, 0, 0>>
    ELSE <<0, t.major, IF t.shape = "maj" THEN 0 ELSE 1, t.minor, t.patch,
           IF t.shape = "pre" THEN 1 ELSE 0>>

RECURSIVE LexLess(_, _)
LexLess(k1, k2) ==
    IF k1 = <<>> \/ k2 = <<>> THEN FALSE
    ELSE IF Head(k1) # Head(k2) THEN Head(k1) < Head(k2)
    ELSE LexLess(Tail(k1), Tail(k2))

versioncmp_less(t1, t2) == LexLess(VersionKey(t1), VersionKey(t2))

\* stdout of `git tag -l 'v*' --sort=-version:refname`, split in lines:
\* the names of the clone's tags, greatest first.
RECURSIVE git_tag_list(_)
git_tag_list(names) ==
    IF names = {} THEN <<>>
    ELSE LET top == CHOOSE x \in names :
                        \A y \in names \ {x} : versioncmp_less(y, x)
         IN  <<top>> \o git_tag_list(names \ {top})

\* re.match(r'v(\d+)\.(\d+)\.(\d+)', latest_tag): a match at the start of
\* the name, whatever follows the third number.
version_match(t) ==
    IF t.shape \in {"ver", "pre"} THEN <<t.major, t.minor, t.patch>> ELSE None

\* get_next_version with a minor or major increment that keeps the lower
\* components
get_next_version_no_reset(names, version_type, ok) ==
    IF ~ok THEN Ver(1, 0, 1)
    ELSE LET tags == git_tag_list(names) IN
         IF tags = <<>> THEN Ver(1, 0, 0)
         ELSE LET m == version_match(tags[1]) IN
              IF m = None THEN Ver(1, 0, 0)
              ELSE IF version_type = "major" THEN Ver(m[1] + 1, m[2], m[3])
              ELSE IF version_type = "minor" THEN Ver(m[1], m[2] + 1, m[3])
              ELSE Ver(m[1], m[2], m[3] + 1)

\* ReleaseManager.get_next_version; ok is the outcome of the tag listing.
get_next_version(names, version_type, ok) ==
    IF ~ok THEN Ver(1, 0, 1)
    ELSE LET tags == git_tag_list(names) IN
         IF tags = <<>> THEN Ver(1, 0, 0)
         ELSE LET m == version_match(tags[1]) IN
              IF m = None THEN Ver(1, 0, 0)
              ELSE IF version_type = "major" THEN Ver(m[1] + 1, 0, 0)
              ELSE IF version_type = "minor" THEN Ver(m[1], m[2] + 1, 0)
              ELSE Ver(m[1], m[2], m[3] + 1)

\* version.split('.')[0]
major_version(v) == Maj(v.major)


\* ------------------------------------------------------------------------
\* Commit messages
\* ------------------------------------------------------------------------
\* A message is a sequence of tokens: a token is one punctuation character,
\* one whitespace character, or a word.  Words are chosen so that none of
\* the keywords of the fallback begins in one token and ends in the next.
Whitespace == {" ", "\t", "\n"}

\* the alternatives of group `type` of the pattern
CommitTypes ==
    {"feat", "fix", "docs", "style", "refactor", "perf", "test", "chore",
     "ci", "build", "revert"}

\* CommitInfo.scope when the pattern had no scope group: a scope that
\* matched [^)]+ is never empty
NoScope == <<>>

Min(S) == CHOOSE x \in S : \A y \in S : x <= y
Max(S) == CHOOSE x \in S : \A y \in S : x >= y

\* str.strip()
strip(s) ==
    LET keep == {i \in 1..Len(s) : s[i] \notin Whitespace}
    IN  IF keep = {} THEN <<>> ELSE SubSeq(s, Min(keep), Max(keep))

\* str.lower() of a token
lower(tok) ==
    CASE tok = "Add" -> "add"
      [] tok = "Fix" -> "fix"
      [] tok = "Feat" -> "feat"
      [] tok = "Update" -> "update"
      [] tok = "README" -> "readme"
      [] tok = "Cleanup" -> "cleanup"
      [] OTHER -> tok

\* the keywords of the fallback that occur in a lower-case token
keywords_in(tok) ==
    CASE tok = "fix" -> {"fix"}
      [] tok = "prefix" -> {"fix"}
      [] tok = "bugfix" -> {"bug", "fix"}
      [] tok = "add" -> {"add"}
      [] tok = "address" -> {"add"}
      [] tok = "feature" -> {"feature"}
      [] tok = "update" -> {"update"}
      [] tok = "refactor" -> {"refactor"}
      [] tok = "cleanup" -> {"clean"}
      [] tok = "docs" -> {"doc"}
      [] tok = "readme" -> {"readme"}
      [] tok = "bug" -> {"bug"}
      [] tok = "resolve" -> {"resolve"}
      [] tok = "patch" -> {"patch"}
      [] tok = "dispatch" -> {"patch"}
      [] tok = "new" -> {"new"}
      [] tok = "renewal" -> {"new"}
      [] tok = "implement" -> {"implement"}
      [] tok = "upgrade" -> {"upgrade"}
      [] tok = "bump" -> {"bump"}
      [] tok = "clean" -> {"clean"}
      [] tok = "reorganize" -> {"reorganize"}
      [] tok = "doc" -> {"doc"}
      [] tok = "comment" -> {"comment"}
      [] OTHER -> {}

\* `word in commit_lower` for some word of words
any_word_in(words, commit_lower) ==
    \E i \in 1..Len(commit_lower) : keywords_in(commit_lower[i]) \cap words # {}

\* the pattern without the group `breaking`
pattern_match_no_bang(s) ==
    IF Len(s) = 0 \/ s[1] \notin CommitTypes THEN None
    ELSE
      LET n == Len(s)
          opens == n >= 2 /\ s[2] = "("
          closers == {j \in 3..n : s[j] = ")"}
          scoped == opens /\ closers # {} /\ Min(closers) > 3
          colon == IF scoped THEN Min(closers) + 1 ELSE 2
      IN  IF opens /\ ~scoped THEN None
          ELSE IF colon + 2 <= n /\ s[colon] = ":" /\ s[colon + 1] = " "
          THEN [type |-> s[1],
                scope |-> IF scoped THEN SubSeq(s, 3, Min(closers) - 1)
                          ELSE NoScope,
                breaking |-> FALSE,
                description |-> SubSeq(s, colon + 2, n)]
          ELSE None

\* re.match(pattern, s): the groups of the match, None when s does not
\* match.  After the type, an opening parenthesis must start a scope that
\* runs to the first closing parenthesis and is not empty; then an optional
\* `!`, a colon, one space, and a description of one character at least
\* that goes to the end.
pattern_match(s) ==
    IF Len(s) = 0 \/ s[1] \notin CommitTypes THEN None
    ELSE
      LET n == Len(s)
          opens == n >= 2 /\ s[2] = "("
          closers == {j \in 3..n : s[j] = ")"}
          scoped == opens /\ closers # {} /\ Min(closers) > 3
          after_scope == IF scoped THEN Min(closers) + 1 ELSE 2
          bang == after_scope <= n /\ s[after_scope] = "!"
          colon == IF bang THEN after_scope + 1 ELSE after_scope
      IN  IF opens /\ ~scoped THEN None
          ELSE IF colon + 2 <= n /\ s[colon] = ":" /\ s[colon + 1] = " "
          THEN [type |-> s[1],
                scope |-> IF scoped THEN SubSeq(s, 3, Min(closers) - 1)
                          ELSE NoScope,
                breaking |-> bang,
                description |-> SubSeq(s, colon + 2, n)]
          ELSE None

\* _parse_conventional_commit without the keywords of the fallback
_parse_conventional_commit_other(commit_msg, commit_hash) ==
    LET match == pattern_match(strip(commit_msg))
    IN  IF match = None
        THEN [type |-> "other", scope |-> NoScope,
              description |-> strip(commit_msg), body |-> None,
              breaking |-> FALSE, hash |-> commit_hash]
        ELSE [type |-> match.type, scope |-> match.scope,
              description |-> match.description, body |-> None,
              breaking |-> match.breaking, hash |-> commit_hash]

\* _parse_conventional_commit with the test for features before the one
\* for fixes
_parse_conventional_commit_feat_first(commit_msg, commit_hash) ==
    LET match == pattern_match(strip(commit_msg))
        commit_lower == strip([i \in 1..Len(commit_msg) |-> lower(commit_msg[i])])
        commit_type ==
            IF any_word_in({"add", "new", "feature", "implement"}, commit_lower)
            THEN "feat"
            ELSE IF any_word_in({"fix", "bug", "resolve", "patch"}, commit_lower)
            THEN "fix"
            ELSE IF any_word_in({"update", "upgrade", "bump"}, commit_lower)
            THEN "chore"
            ELSE IF any_word_in({"refactor", "clean", "reorganize"}, commit_lower)
            THEN "refactor"
            ELSE IF any_word_in({"doc", "readme", "comment"}, commit_lower)
            THEN "docs"
            ELSE "chore"
    IN  IF match = None
        THEN [type |-> commit_type, scope |-> NoScope,
              description |-> strip(commit_msg), body |-> None,
              breaking |-> FALSE, hash |-> commit_hash]
        ELSE [type |-> match.type, scope |-> match.scope,
              description |-> match.description, body |-> None,
              breaking |-> match.breaking, hash |-> commit_hash]

\* ReleaseManager._parse_conventional_commit
_parse_conventional_commit(commit_msg, commit_hash) ==
    LET match == pattern_match(strip(commit_msg))
        commit_lower == strip([i \in 1..Len(commit_msg) |-> lower(commit_msg[i])])
        commit_type ==
            IF any_word_in({"fix", "bug", "resolve", "patch"}, commit_lower)
            THEN "fix"
            ELSE IF any_word_in({"add", "new", "feature", "implement"}, commit_lower)
            THEN "feat"
            ELSE IF any_word_in({"update", "upgrade", "bump"}, commit_lower)
            THEN "chore"
            ELSE IF any_word_in({"refactor", "clean", "reorganize"}, commit_lower)
            THEN "refactor"
            ELSE IF any_word_in({"doc", "readme", "comment"}, commit_lower)
            THEN "docs"
            ELSE "chore"
    IN  IF match = None
        THEN [type |-> commit_type, scope |-> NoScope,
              description |-> strip(commit_msg), body |-> None,
              breaking |-> FALSE, hash |-> commit_hash]
        ELSE [type |-> match.type, scope |-> match.scope,
              description |-> match.description, body |-> None,
              breaking |-> match.breaking, hash |-> commit_hash]

\* _analyze_commits_for_version_bump without the test for features
_analyze_commits_for_version_bump_no_feat(commits) ==
    IF \E i \in 1..Len(commits) : commits[i].breaking THEN "major"
    ELSE "patch"

\* ReleaseManager._analyze_commits_for_version_bump
_analyze_commits_for_version_bump(commits) ==
    LET has_breaking == \E i \in 1..Len(commits) : commits[i].breaking
        has_features == \E i \in 1..Len(commits) : commits[i].type = "feat"
    IN  IF has_breaking THEN "major"
        ELSE IF has_features THEN "minor"
        ELSE "patch"

\* line.split('|', 1) of a line that holds a '|'
split_bar(line) ==
    LET bar == Min({i \in 1..Len(line) : line[i] = "|"})
    IN  <<SubSeq(line, 1, bar - 1), SubSeq(line, bar + 1, Len(line))>>

\* hash_part[:7]
short_hash(hash_part) ==
    SubSeq(hash_part, 1, IF Len(hash_part) < 7 THEN Len(hash_part) ELSE 7)

\* the loop of _get_commits_since_last_release over the lines of the log
RECURSIVE parse_lines(_)
parse_lines(lines) ==
    IF lines = <<>> THEN <<>>
    ELSE LET line == Head(lines)
             rest == parse_lines(Tail(lines))
         IN  IF \E i \in 1..Len(line) : line[i] = "|"
             THEN <<_parse_conventional_commit(split_bar(line)[2],
                                               short_hash(split_bar(line)[1]))>>
                  \o rest
             ELSE rest

\* ------------------------------------------------------------------------
\* Automatic release notes
\* ------------------------------------------------------------------------
\* One element of the list `sections`: the parts the f-string is built from.
Line(kind, text) ==
    [kind |-> kind, text |-> text, emoji |-> "", scope |-> NoScope,
     description |-> <<>>, count |-> 0]

Heading(text) == Line("heading", text)

Blank == Line("blank", "")

\* f"- {scope_text}{commit.description}", with the emoji of Maintenance
Entry(emoji, commit) ==
    [Line("entry", "") EXCEPT !.emoji = emoji, !.scope = commit.scope,
                              !.description = commit.description]

\* f"**{label}**: {count}"
Stat(label, count) == [Line("stat", label) EXCEPT !.count = count]

Entries(cs) == [i \in 1..Len(cs) |-> Entry("", cs[i])]

\* grouped_commits[commit_type]; the type is a key when the list is not empty
grouped_commits(commits, commit_type) ==
    SelectSeq(commits, LAMBDA c : c.type = commit_type)

breaking_commits(commits) == SelectSeq(commits, LAMBDA c : c.breaking)

type_emoji(commit_type) ==
    CASE commit_type = "refactor" -> "recycle"
      [] commit_type = "chore" -> "broom"
      [] commit_type = "ci" -> "construction_worker"
      [] commit_type = "build" -> "package"
      [] commit_type = "style" -> "lipstick"
      [] commit_type = "test" -> "check_mark"
      [] OTHER -> "wrench"

\* maintenance_commits: the groups of maintenance_types, one after the other
maintenance_commits(commits) ==
    grouped_commits(commits, "refactor") \o grouped_commits(commits, "chore")
    \o grouped_commits(commits, "ci") \o grouped_commits(commits, "build")
    \o grouped_commits(commits, "style") \o grouped_commits(commits, "test")

\* the sections of the changes, from "Breaking changes first" to Maintenance
change_sections(commits) ==
    LET group(text, commit_type) ==
            IF grouped_commits(commits, commit_type) # <<>>
            THEN <<Heading(text)>>
                 \o Entries(grouped_commits(commits, commit_type))
                 \o <<Blank>>
            ELSE <<>>
        features == grouped_commits(commits, "feat")
        maintenance == maintenance_commits(commits)
    IN  (IF breaking_commits(commits) # <<>>
         THEN <<Heading("Breaking Changes")>>
              \o Entries(breaking_commits(commits)) \o <<Blank>>
         ELSE <<>>)
        \o (IF features # <<>>
            THEN <<Heading("New Features")>>
                 \o Entries(SelectSeq(features, LAMBDA c : ~c.breaking))
                 \o <<Blank>>
            ELSE <<>>)
        \o group("Bug Fixes", "fix")
        \o group("Performance Improvements", "perf")
        \o group("Documentation", "docs")
        \o (IF maintenance # <<>>
            THEN <<Heading("Maintenance")>>
                 \o [i \in 1..Len(maintenance) |->
                        Entry(type_emoji(maintenance[i].type), maintenance[i])]
                 \o <<Blank>>
            ELSE <<>>)

\* "# Statistics": the list `stats` under its heading
release_statistics(commits) ==
    LET feat_count ==
            Len(SelectSeq(grouped_commits(commits, "feat"), LAMBDA c : ~c.breaking))
        stats ==
            (IF breaking_commits(commits) # <<>>
             THEN <<Stat("Breaking Changes", Len(breaking_commits(commits)))>>
             ELSE <<>>)
            \o (IF feat_count > 0 THEN <<Stat("New Features", feat_count)>>
                ELSE <<>>)
            \o (IF grouped_commits(commits, "fix") # <<>>
                THEN <<Stat("Bug Fixes", Len(grouped_commits(commits, "fix")))>>
                ELSE <<>>)
            \o (IF maintenance_commits(commits) # <<>>
                THEN <<Stat("Maintenance", Len(maintenance_commits(commits)))>>
                ELSE <<>>)
            \o <<Stat("Total Changes", Len(commits))>>
    IN  <<Heading("Release Statistics")>> \o stats \o <<Blank>>

\* str.title() of the value of a VersionType
value_title(version_type) ==
    CASE version_type = "major" -> "Major"
      [] version_type = "minor" -> "Minor"
      [] OTHER -> "Patch"

\* "# Version recommendation" printed whatever the configured type
version_recommendation_always(commits, suggested, version_type) ==
    <<Heading("Version Recommendation"),
      Line("detected", value_title(suggested)),
      Line("configured", value_title(version_type))>>
    \o (IF breaking_commits(commits) # <<>>
        THEN <<Line("note", "Breaking changes detected")>>
        ELSE <<>>)
    \o <<Blank>>

\* "# Version recommendation"
version_recommendation(commits, suggested, version_type) ==
    IF suggested # version_type
    THEN <<Heading("Version Recommendation"),
           Line("detected", value_title(suggested)),
           Line("configured", value_title(version_type))>>
         \o (IF breaking_commits(commits) # <<>>
             THEN <<Line("note", "Breaking changes detected")>>
             ELSE <<>>)
         \o <<Blank>>
    ELSE <<>>

\* the list `sections` of _generate_automatic_notes for a list of commits
\* that is not empty; the heading line, the usage block and the footer
\* around it do not depend on the commits but for the icon of the heading
automatic_sections(commits, version_type) ==
    change_sections(commits)
    \o release_statistics(commits)
    \o version_recommendation(commits,
                              _analyze_commits_for_version_bump(commits),
                              version_type)

\* ------------------------------------------------------------------------
\* Dependency updates
\* ------------------------------------------------------------------------
\* re.search(r'([a-zA-Z0-9_-]+/[a-zA-Z0-9_-]+)', word): the match in one word
\* of a title, "" when the word has none
action_in(word) ==
    CASE word = "ossf/scorecard-action" -> "ossf/scorecard-action"
      [] word = "actions/checkout" -> "actions/checkout"
      [] word = "a/b/c" -> "a/b"
      [] OTHER -> ""

\* re.findall(r'v?(\d+\.\d+\.\d+)', word): the group of the match in one
\* word of a title, "" when the word has none
version_in(word) ==
    CASE word = "2.4.0" -> "2.4.0"
      [] word = "2.4.2" -> "2.4.2"
      [] word = "v2.4.2" -> "2.4.2"
      [] word = "1.2.3.4" -> "1.2.3"
      [] OTHER -> ""

\* f"v{match}"
v_prefixed(match) ==
    CASE match = "2.4.0" -> "v2.4.0"
      [] match = "2.4.2" -> "v2.4.2"
      [] match = "1.2.3" -> "v1.2.3"

\* re.findall over the title: the matches of its words, in order
version_matches(pr_title) ==
    LET hits == SelectSeq(pr_title, LAMBDA w : version_in(w) # "")
    IN  [i \in DOMAIN hits |-> version_in(hits[i])]

\* re.search over the title: the match of the first word that has one
action_match(pr_title) ==
    LET hits == SelectSeq(pr_title, LAMBDA w : action_in(w) # "")
    IN  IF hits = <<>> THEN "" ELSE action_in(hits[1])

\* extract_dependency_info that takes the new version from the first match
extract_dependency_info_first_only(pr_title) ==
    LET matches == version_matches(pr_title)
        action_name == action_match(pr_title)
    IN  [action_name |-> action_name,
         old_version |-> IF Len(matches) >= 1 THEN v_prefixed(matches[1])
                         ELSE "unknown",
         new_version |-> IF Len(matches) >= 1 THEN v_prefixed(matches[1])
                         ELSE "latest",
         warning |-> action_name = ""]

\* ReleaseManager.extract_dependency_info; warning: the line printed when
\* the title names no action
extract_dependency_info(pr_title) ==
    LET matches == version_matches(pr_title)
        action_name == action_match(pr_title)
    IN  [action_name |-> action_name,
         old_version |-> IF Len(matches) >= 1 THEN v_prefixed(matches[1])
                         ELSE "unknown",
         new_version |-> IF Len(matches) >= 2 THEN v_prefixed(matches[2])
                         ELSE IF Len(matches) >= 1 THEN v_prefixed(matches[1])
                         ELSE "latest",
         warning |-> action_name = ""]

\* One line of the body `gh api ... --jq .body` prints: its text, and its
\* number when it is a line of content
BodyLine(text, n) == [Line("body", text) EXCEPT !.count = n]

\* lines 1..n of content
Numbered(n) == [i \in 1..n |-> BodyLine("line", i)]

\* str.lstrip and str.rstrip of one line
lstrip(text) ==
    CASE text = " line" -> "line"
      [] text = " " -> ""
      [] OTHER -> text

rstrip(text) ==
    CASE text = "line " -> "line"
      [] text = " " -> ""
      [] OTHER -> text

\* result.stdout.strip(), on the lines of the output: the blank lines at
\* both ends go, and the white space before the first and after the last
body_strip(body) ==
    LET keep == {i \in DOMAIN body : body[i].text \notin {"", " "}}
    IN  IF keep = {} THEN <<>>
        ELSE LET lines == SubSeq(body, Min(keep), Max(keep))
                 n == Len(lines)
             IN  [i \in 1..n |->
                    [lines[i] EXCEPT
                       !.text = IF i = 1 /\ i = n THEN lstrip(rstrip(@))
                                ELSE IF i = 1 THEN lstrip(@)
                                ELSE IF i = n THEN rstrip(@)
                                ELSE @]]

\* notes.split('\n')[:50]
NotesLimit == 50

\* the lines of the notes without the limit
first_lines_all(lines) == lines

first_lines(lines) == SubSeq(lines, 1, Min({NotesLimit, Len(lines)}))

\* _generate_fallback_notes(action_name, new_version, old_version)
_generate_fallback_notes(dep) ==
    <<[Line("fallback", "Dependency Update") EXCEPT
         !.description = <<dep.action_name, dep.old_version, dep.new_version>>]>>

\* The value fetch_upstream_notes returns: status of the command ("ok",
\* "nonzero", or "raises" when running it raised) and the body it printed
upstream_result(status, body, dep) ==
    IF /\ status = "ok"
       /\ body_strip(body) # <<>>
       /\ body_strip(body) # <<BodyLine("null", 0)>>
    THEN first_lines(body_strip(body))
    ELSE _generate_fallback_notes(dep)

\* ------------------------------------------------------------------------
\* Templates
\* ------------------------------------------------------------------------
\* _generate_usage_block
usage == Line("usage", "uses: broadsage/scorecard-action@v1")

\* _generate_footer(context)
footer(context) ==
    Line("footer", IF context = "dependabot"
                   THEN "automatically created by our dependency management system"
                   ELSE "manually created via GitHub Actions workflow")

\* category_icons.get(action_name, "package")
category_icon(action_name) ==
    CASE action_name = "ossf/scorecard-action" -> "lock"
      [] action_name = "github/codeql-action" -> "shield"
      [] action_name = "actions/upload-artifact" -> "outbox"
      [] action_name = "actions/checkout" -> "inbox"
      [] action_name = "slackapi/slack-github-action" -> "link"
      [] OTHER -> "package"

\* _generate_dependency_notes
_generate_dependency_notes(dep, upstream_lines) ==
    <<[Heading("Dependency Update") EXCEPT
         !.emoji = category_icon(dep.action_name)],
      Heading("What's Updated"),
      [Line("updated", "") EXCEPT
         !.description = <<dep.action_name, dep.old_version, dep.new_version>>],
      Heading("Upstream Release Notes")>>
    \o upstream_lines
    \o <<Heading("Maintenance"),
         Line("maintenance", "Automated dependency update via Dependabot"),
         usage, footer("dependabot")>>

\* the template of the custom notes without the place for the notes
custom_document_no_text(custom_notes) ==
    <<[Heading("What's New") EXCEPT !.emoji = "rocket"],
      usage, footer("manual")>>

\* _generate_manual_notes with custom notes
custom_document(custom_notes) ==
    <<[Heading("What's New") EXCEPT !.emoji = "rocket"],
      [Line("custom", "") EXCEPT !.description = custom_notes],
      usage, footer("manual")>>

\* the notes of _generate_automatic_notes for no commits (updates = "Updates")
\* and of its except branch (updates = "Updates  ")
generic_document(updates) ==
    <<[Heading("What's Changed") EXCEPT !.emoji = "rocket"],
      Heading(updates),
      [Line("entry", "") EXCEPT
         !.description = <<"Various improvements and updates">>],
      usage, footer("manual")>>

\* version_icon of _generate_automatic_notes
version_icon(commits) ==
    IF \E i \in DOMAIN commits : commits[i].breaking THEN "boom"
    ELSE IF \E i \in DOMAIN commits : commits[i].type = "feat" THEN "rocket"
    ELSE "target"

\* the notes of _generate_automatic_notes for a list of commits
automatic_document(commits, sections) ==
    <<[Heading("What's Changed") EXCEPT !.emoji = version_icon(commits)]>>
    \o sections
    \o <<usage, footer("manual")>>

\* ------------------------------------------------------------------------
\* State
\* ------------------------------------------------------------------------
VARIABLES
    env,        \* the environment variables the run reads
    head,       \* commit HEAD of the clone points at
    local,      \* tags of the clone: name -> commit
    remote,     \* tags of origin: name -> commit
    releases,   \* names that have a release object on the remote
    pc,         \* position of the run in __init__ / main
    log,        \* external commands issued by the run, in order
    version,    \* value of `version` in create_and_publish_release
    list_ok,    \* outcome of the tag listing made by create_and_publish_release
    dependency, \* what extract_dependency_info returned
    api_body,   \* lines `gh api ... --jq .body` prints when it succeeds
    api_status, \* how the command of fetch_upstream_notes ended
    upstream,   \* which branch of fetch_upstream_notes returned
    upstream_notes, \* the lines fetch_upstream_notes returned
    notes,      \* which template produced release_notes
    history,    \* lines `git log <last>..HEAD` prints, newest first
    log_read,   \* outcome of the git log of _get_commits_since_last_release
    commits,    \* list returned by _get_commits_since_last_release
    suggested_version_type, \* value of _analyze_commits_for_version_bump
    sections,   \* list `sections` of _generate_automatic_notes
    document,   \* the release notes, as the parts the template is filled with
    failure,    \* the command whose failure ended the run
    exit,       \* exit status of the process, -1 while it runs
    start,      \* tags and releases when the run started
    runs,       \* number of runs started so far
    prev,       \* summary of the previous run
    other,      \* state of the run that runs at the same time, if there is one
    runner      \* which of the two runs the other variables describe

vars == <<env, head, local, remote, releases, pc, log, version, list_ok,
          dependency, api_body, api_status, upstream, upstream_notes,
          notes, history, log_read, commits,
          suggested_version_type, sections, document,
          failure, exit, start, runs, prev, other, runner>>

EmptyTags == [n \in {} |-> 0]

\* f with name n set to commit c
Put(f, n, c) == [x \in DOMAIN f \cup {n} |-> IF x = n THEN c ELSE f[x]]

\* the empty string; `x.strip() or None` is None exactly when x.strip()
\* is empty, and NoText stands for that None as well
NoText == <<>>

\* os.getenv(...).strip() or None
strip_or_none(s) == strip(s)

\* ReleaseManager._detect_release_context
_detect_release_context(e) ==
    [context |-> IF e.TRIGGER_TYPE = "workflow_dispatch" THEN "manual"
                 ELSE "dependabot",
     version_type |-> IF e.VERSION_TYPE \in VersionType THEN e.VERSION_TYPE
                      ELSE "patch",
     dry_run |-> (e.DRY_RUN = "true"),
     custom_notes |-> strip_or_none(e.CUSTOM_NOTES),
     pr_title |-> strip_or_none(e.PR_TITLE)]

\* self.config
config == _detect_release_context(env)

\* "Bump ossf/scorecard-action from 2.4.0 to 2.4.2"
BumpTitle ==
    <<"Bump", " ", "ossf/scorecard-action", " ", "from", " ", "2.4.0", " ",
      "to", " ", "2.4.2">>

\* Values of CUSTOM_NOTES: texts as sequences of tokens
CustomTexts ==
    {NoText, <<"notes">>, <<" ", "\n">>,
     <<" ", "first", " ", "line", "\n", "second", "\n">>}

\* Words of a pull request title
TitleWords ==
    {"Bump", "to", "ossf/scorecard-action", "actions/checkout", "a/b/c",
     "2.4.0", "v2.4.2", "1.2.3.4", "2.4"}

\* The sequences over S of n elements at most
RECURSIVE SeqsUpTo(_, _)
SeqsUpTo(S, n) ==
    IF n = 0 THEN {<<>>}
    ELSE LET R == SeqsUpTo(S, n - 1)
         IN  R \cup {Append(r, x) : r \in {q \in R : Len(q) = n - 1}, x \in S}

\* the words of ws with one space between them
RECURSIVE Join(_)
Join(ws) ==
    IF Len(ws) <= 1 THEN ws
    ELSE <<Head(ws), " ">> \o Join(Tail(ws))

\* Values of PR_TITLE: the title of Dependabot, blank titles, and the titles
\* of MaxTitle words at most
Titles ==
    {BumpTitle, <<" ">>, <<"\t", " ">>}
    \cup {Join(ws) : ws \in SeqsUpTo(TitleWords, MaxTitle)}

\* Environments a run is started with.
Envs ==
    { [GITHUB_TOKEN |-> tok, TRIGGER_TYPE |-> trig, VERSION_TYPE |-> vt,
       DRY_RUN |-> dry, CUSTOM_NOTES |-> cn, PR_TITLE |-> title] :
        tok \in BOOLEAN,
        trig \in {"pull_request", "workflow_dispatch"},
        vt \in VersionType \cup {"bogus"},
        dry \in {"true", "false"},
        cn \in CustomTexts,
        title \in Titles }

\* One representative per behaviour: a variable the run never reads is left
\* at its default.
RunEnvs ==
    { e \in Envs :
        /\ e.CUSTOM_NOTES \in {NoText, <<"notes">>}
        /\ e.PR_TITLE \in {NoText, <<" ">>, BumpTitle}
        /\ ~e.GITHUB_TOKEN =>
              /\ e.TRIGGER_TYPE = "pull_request" /\ e.VERSION_TYPE = "patch"
              /\ e.DRY_RUN = "false" /\ e.PR_TITLE = NoText
        /\ e.TRIGGER_TYPE = "pull_request" => e.CUSTOM_NOTES = NoText
        /\ e.TRIGGER_TYPE = "workflow_dispatch" => e.PR_TITLE = NoText
        /\ e.PR_TITLE = <<" ">> =>
              /\ e.VERSION_TYPE = "patch" /\ e.DRY_RUN = "false"
        /\ e.VERSION_TYPE = "bogus" =>
              /\ e.DRY_RUN = "false" /\ e.CUSTOM_NOTES = NoText }

\* %H: the hash of the i-th commit of the log
HashLen == 8
Hash(i) == [k \in 1..HashLen |-> ToString(i)]

\* the line of format %H|%s for the i-th commit, with subject msg
LogLine(i, msg) == Hash(i) \o <<"|">> \o msg

\* the message type(scope)!: description
Build(commit_type, scope, bang, description) ==
    <<commit_type>>
    \o (IF scope = NoScope THEN <<>> ELSE <<"(">> \o scope \o <<")">>)
    \o (IF bang THEN <<"!">> ELSE <<>>)
    \o <<":", " ">> \o description

\* Logs a run of the whole program starts with.
SeedHistories ==
    {<<>>, <<LogLine(1, Build("feat", NoScope, FALSE, <<"1">>))>>}

\* The subsets of S of at most k elements
RECURSIVE SubsetsUpTo(_, _)
SubsetsUpTo(S, k) ==
    IF k = 0 THEN {{}}
    ELSE LET R == SubsetsUpTo(S, k - 1)
         IN  R \cup {T \cup {x} : T \in R, x \in S}

\* Tag names a repository starts with.
SeedTags == {Ver(1, 0, 0), Ver(1, 0, 1), Pre(1, 0, 1), Maj(1), Maj(2), Word}

\* Tags of the remote when the first run starts: at most MaxInitTags of the
\* seed names, all on commit c.
InitTags(c) == { [n \in S |-> c] : S \in SubsetsUpTo(SeedTags, MaxInitTags) }

Snapshot == [local |-> local, remote |-> remote, releases |-> releases]

InitRepo ==
    /\ head \in Commits
    /\ \E c \in Commits : remote \in InitTags(c)
    /\ local \in {remote, EmptyTags}
    /\ releases \in {{}, {n \in DOMAIN remote : n.shape \in {"ver", "pre"}}}

InitRun ==
    /\ other = None
    /\ runner = 1
    /\ pc = "start"
    /\ log = <<>>
    /\ version = None
    /\ list_ok = NoneStr
    /\ dependency = None
    /\ api_status = NoneStr
    /\ upstream = NoneStr
    /\ upstream_notes = <<>>
    /\ notes = NoneStr
    /\ document = <<>>
    /\ log_read = NoneStr
    /\ commits = <<>>
    /\ suggested_version_type = NoneStr
    /\ sections = <<>>
    /\ failure = None
    /\ exit = -1
    /\ start = Snapshot

\* Bodies of the upstream release in the runs of any context
SeedBodies == {<<>>, Numbered(1)}

Init ==
    /\ env \in RunEnvs
    /\ InitRepo
    /\ InitRun
    /\ history \in IF env.TRIGGER_TYPE = "workflow_dispatch" /\ env.CUSTOM_NOTES = NoText
                   THEN SeedHistories ELSE {<<>>}
    /\ api_body \in IF env.TRIGGER_TYPE # "workflow_dispatch" /\ env.PR_TITLE = BumpTitle
                    THEN SeedBodies ELSE {<<>>}
    /\ runs = 1
    /\ prev = None

\* ------------------------------------------------------------------------
\* The run
\* ------------------------------------------------------------------------
repo == <<head, local, remote, releases>>
outcome == <<failure, exit>>
fixed == <<env, start, runs, prev, history, api_body, other, runner>>
fetched == <<dependency, api_status, upstream, upstream_notes>>
release_notes ==
    <<notes, log_read, commits, suggested_version_type, sections, document>>

Issue(cmd) == log' = Append(log, cmd)

\* a failed command whose exception is swallowed: the run reports success
Fatal_swallowed(cmd, cause) ==
    /\ pc' = "done"
    /\ exit' = 0
    /\ failure' = [cmd |-> cmd, cause |-> cause]

\* A command run with check=True returned non-zero: _run_command re-raises,
\* main's except prints the diagnostic and calls sys.exit(1).
Fatal(cmd, cause) ==
    /\ pc' = "failed"
    /\ exit' = 1
    /\ failure' = [cmd |-> cmd, cause |-> cause]

\* __init__ without _validate_environment
__init___no_validate ==
    /\ pc = "start"
    /\ IF ~env.GITHUB_TOKEN
       THEN /\ pc' = "failed" /\ exit' = 1
       ELSE /\ pc' = "main" /\ exit' = exit
    /\ UNCHANGED <<repo, fixed, log, version, list_ok, fetched, release_notes, failure>>

\* ReleaseManager.__init__: _get_github_token, _detect_release_context,
\* _validate_environment.
__init__ ==
    /\ pc = "start"
    /\ IF ~env.GITHUB_TOKEN
       THEN /\ pc' = "failed" /\ exit' = 1
       ELSE IF config.context = "dependabot" /\ config.pr_title = NoText
       THEN /\ pc' = "failed" /\ exit' = 1
       ELSE /\ pc' = "main" /\ exit' = exit
    /\ UNCHANGED <<repo, fixed, log, version, list_ok, fetched, release_notes, failure>>

\* main with an extraction that reads one version only
main_first_only ==
    /\ pc = "main"
    /\ pc' = IF config.context = "dependabot" THEN "fetch" ELSE "notes_version"
    /\ dependency' = IF config.context = "dependabot"
                     THEN extract_dependency_info_first_only(config.pr_title)
                     ELSE dependency
    /\ UNCHANGED <<repo, fixed, outcome, log, version, list_ok, api_status,
                   upstream, upstream_notes, release_notes>>

\* main: the branch on the context; extract_dependency_info runs no command.
main ==
    /\ pc = "main"
    /\ pc' = IF config.context = "dependabot" THEN "fetch" ELSE "notes_version"
    /\ dependency' = IF config.context = "dependabot"
                     THEN extract_dependency_info(config.pr_title)
                     ELSE dependency
    /\ UNCHANGED <<repo, fixed, outcome, log, version, list_ok, api_status,
                   upstream, upstream_notes, release_notes>>

\* ReleaseManager.fetch_upstream_notes: `gh api repos/.../releases/tags/...`
\* with check=False, which returns a status or raises; the body is printed
\* when the status is zero.
fetch_upstream_notes ==
    /\ pc = "fetch"
    /\ Issue("gh_api")
    /\ \E status \in {"ok", "nonzero", "raises"} :
          LET body == IF status = "ok" THEN api_body ELSE <<>>
          IN  /\ api_status' = status
              /\ upstream_notes' = upstream_result(status, body, dependency)
              /\ upstream' = IF upstream_notes' = _generate_fallback_notes(dependency)
                             THEN "fallback" ELSE "fetched"
    /\ pc' = "notes_version"
    /\ UNCHANGED <<repo, fixed, outcome, version, list_ok, dependency, release_notes>>

\* main: version=self.get_next_version(), the argument of
\* generate_release_notes; no template uses the value.
notes_version ==
    /\ pc = "notes_version"
    /\ Issue("git_tag_list")
    /\ pc' = "notes"
    /\ UNCHANGED <<repo, fixed, outcome, version, list_ok, fetched, release_notes>>

\* generate_release_notes whose except branch returns nothing
generate_release_notes_no_fallback ==
    /\ pc = "notes"
    /\ IF config.context = "dependabot"
       THEN /\ notes' = "dependency"
            /\ document' = _generate_dependency_notes(dependency, upstream_notes)
            /\ log' = log
            /\ UNCHANGED <<log_read, commits, suggested_version_type, sections>>
       ELSE IF config.custom_notes # NoText
       THEN /\ notes' = "custom"
            /\ document' = custom_document(config.custom_notes)
            /\ log' = log
            /\ UNCHANGED <<log_read, commits, suggested_version_type, sections>>
       ELSE \* _generate_automatic_notes: _get_last_version, then git log,
            \* whose failure leaves the list of commits empty
            /\ log' = log \o <<"git_tag_list", "git_log">>
            /\ \E ok \in BOOLEAN :
                  /\ log_read' = IF ok THEN "ok" ELSE "failed"
                  /\ commits' = IF ok THEN parse_lines(history) ELSE <<>>
            /\ IF commits' = <<>>
               THEN /\ notes' = "generic"
                    /\ document' = generic_document("Updates")
                    /\ UNCHANGED <<suggested_version_type, sections>>
               ELSE \* the statements after the early return are inside
                    \* try/except Exception: when one of them raises, the
                    \* except branch returns the generic notes
                    \E raised \in BOOLEAN :
                       IF raised
                       THEN /\ notes' = "generic"
                            /\ document' = <<>>
                            /\ UNCHANGED <<suggested_version_type, sections>>
                       ELSE /\ notes' = "automatic"
                            /\ suggested_version_type' =
                                  _analyze_commits_for_version_bump(commits')
                            /\ sections' =
                                  automatic_sections(commits', config.version_type)
                            /\ document' = automatic_document(commits', sections')
    /\ pc' = "publish"
    /\ UNCHANGED <<repo, fixed, outcome, version, list_ok, fetched>>

\* ReleaseManager.generate_release_notes
generate_release_notes ==
    /\ pc = "notes"
    /\ IF config.context = "dependabot"
       THEN /\ notes' = "dependency"
            /\ document' = _generate_dependency_notes(dependency, upstream_notes)
            /\ log' = log
            /\ UNCHANGED <<log_read, commits, suggested_version_type, sections>>
       ELSE IF config.custom_notes # NoText
       THEN /\ notes' = "custom"
            /\ document' = custom_document(config.custom_notes)
            /\ log' = log
            /\ UNCHANGED <<log_read, commits, suggested_version_type, sections>>
       ELSE \* _generate_automatic_notes: _get_last_version, then git log,
            \* whose failure leaves the list of commits empty
            /\ log' = log \o <<"git_tag_list", "git_log">>
            /\ \E ok \in BOOLEAN :
                  /\ log_read' = IF ok THEN "ok" ELSE "failed"
                  /\ commits' = IF ok THEN parse_lines(history) ELSE <<>>
            /\ IF commits' = <<>>
               THEN /\ notes' = "generic"
                    /\ document' = generic_document("Updates")
                    /\ UNCHANGED <<suggested_version_type, sections>>
               ELSE \* the statements after the early return are inside
                    \* try/except Exception: when one of them raises, the
                    \* except branch returns the generic notes
                    \E raised \in BOOLEAN :
                       IF raised
                       THEN /\ notes' = "generic"
                            /\ document' = generic_document("Updates  ")
                            /\ UNCHANGED <<suggested_version_type, sections>>
                       ELSE /\ notes' = "automatic"
                            /\ suggested_version_type' =
                                  _analyze_commits_for_version_bump(commits')
                            /\ sections' =
                                  automatic_sections(commits', config.version_type)
                            /\ document' = automatic_document(commits', sections')
    /\ pc' = "publish"
    /\ UNCHANGED <<repo, fixed, outcome, version, list_ok, fetched>>

\* create_and_publish_release without the return of the dry run
create_and_publish_release_no_dry ==
    /\ pc = "publish"
    /\ Issue("git_tag_list")
    /\ \E ok \in BOOLEAN :
          /\ list_ok' = IF ok THEN "ok" ELSE "failed"
          /\ version' = get_next_version(DOMAIN local, config.version_type, ok)
    /\ pc' = "config_name"
    /\ exit' = exit
    /\ UNCHANGED <<repo, fixed, failure, fetched, release_notes>>

\* create_and_publish_release with a dry run that previews the version of
\* the default version type
create_and_publish_release_dry_patch ==
    /\ pc = "publish"
    /\ Issue("git_tag_list")
    /\ \E ok \in BOOLEAN :
          /\ list_ok' = IF ok THEN "ok" ELSE "failed"
          /\ version' = get_next_version(DOMAIN local,
                            IF config.dry_run THEN "patch" ELSE config.version_type, ok)
    /\ IF config.dry_run
       THEN /\ pc' = "done" /\ exit' = 0
       ELSE /\ pc' = "config_name" /\ exit' = exit
    /\ UNCHANGED <<repo, fixed, failure, fetched, release_notes>>

\* create_and_publish_release with the version type the commits suggest
create_and_publish_release_suggested ==
    /\ pc = "publish"
    /\ Issue("git_tag_list")
    /\ \E ok \in BOOLEAN :
          /\ list_ok' = IF ok THEN "ok" ELSE "failed"
          /\ version' = get_next_version(DOMAIN local,
                            IF suggested_version_type # NoneStr
                            THEN suggested_version_type
                            ELSE config.version_type, ok)
    /\ IF config.dry_run
       THEN /\ pc' = "done" /\ exit' = 0
       ELSE /\ pc' = "config_name" /\ exit' = exit
    /\ UNCHANGED <<repo, fixed, failure, fetched, release_notes>>

\* ReleaseManager.create_and_publish_release up to the first command of
\* the live path: the version, then the return of a dry run.
create_and_publish_release ==
    /\ pc = "publish"
    /\ Issue("git_tag_list")
    /\ \E ok \in BOOLEAN :
          /\ list_ok' = IF ok THEN "ok" ELSE "failed"
          /\ version' = get_next_version(DOMAIN local, config.version_type, ok)
    /\ IF config.dry_run
       THEN /\ pc' = "done" /\ exit' = 0
       ELSE /\ pc' = "config_name" /\ exit' = exit
    /\ UNCHANGED <<repo, fixed, failure, fetched, release_notes>>

\* git config user.name / user.email
git_config ==
    /\ pc \in {"config_name", "config_email"}
    /\ Issue("git_config")
    /\ \E ok \in BOOLEAN :
          IF ok
          THEN /\ pc' = IF pc = "config_name" THEN "config_email" ELSE "tag"
               /\ UNCHANGED outcome
          ELSE Fatal("git_config", "command")
    /\ UNCHANGED <<repo, fixed, version, list_ok, fetched, release_notes>>

\* git tag -a -f: an existing version tag is replaced
git_tag_a_forced ==
    /\ pc = "tag"
    /\ Issue("git_tag_a")
    /\ \E ok \in BOOLEAN :
          IF ok
          THEN /\ local' = Put(local, version, head)
               /\ pc' = "push"
               /\ UNCHANGED outcome
          ELSE /\ Fatal("git_tag_a", "command")
               /\ local' = local
    /\ UNCHANGED <<head, remote, releases, fixed, version, list_ok, fetched, release_notes>>

\* git tag -a not followed by the push of the version tag
git_tag_a_skip_push ==
    /\ pc = "tag"
    /\ Issue("git_tag_a")
    /\ IF version \in DOMAIN local
       THEN /\ Fatal("git_tag_a", "exists")
            /\ local' = local
       ELSE \E ok \in BOOLEAN :
              IF ok
              THEN /\ local' = Put(local, version, head)
                   /\ pc' = "major_tag"
                   /\ UNCHANGED outcome
              ELSE /\ Fatal("git_tag_a", "command")
                   /\ local' = local
    /\ UNCHANGED <<head, remote, releases, fixed, version, list_ok, fetched, release_notes>>

\* git tag -a that replaces a tag that exists
git_tag_a_overwrite ==
    /\ pc = "tag"
    /\ Issue("git_tag_a")
    /\ \E ok \in BOOLEAN :
          IF ok
          THEN /\ local' = Put(local, version, head)
               /\ pc' = "push"
               /\ UNCHANGED outcome
          ELSE /\ Fatal("git_tag_a", "command")
               /\ local' = local
    /\ UNCHANGED <<head, remote, releases, fixed, version, list_ok, fetched, release_notes>>

\* _create_and_push_tags: git tag -a <version> -m <commit_msg>
git_tag_a ==
    /\ pc = "tag"
    /\ Issue("git_tag_a")
    /\ IF version \in DOMAIN local
       THEN /\ Fatal("git_tag_a", "exists")
            /\ local' = local
       ELSE \E ok \in BOOLEAN :
              IF ok
              THEN /\ local' = Put(local, version, head)
                   /\ pc' = "push"
                   /\ UNCHANGED outcome
              ELSE /\ Fatal("git_tag_a", "command")
                   /\ local' = local
    /\ UNCHANGED <<head, remote, releases, fixed, version, list_ok, fetched, release_notes>>

\* _create_and_push_tags: git push origin <version>.  A tag the remote
\* already has is rejected, unless both sides hold the very same tag object.
git_push ==
    /\ pc = "push"
    /\ Issue("git_push")
    /\ IF version \in DOMAIN remote
       THEN \E same_object \in BOOLEAN :
              IF same_object /\ remote[version] = local[version]
              THEN /\ pc' = "major_tag"
                   /\ UNCHANGED <<outcome, remote>>
              ELSE /\ Fatal("git_push", "rejected")
                   /\ remote' = remote
       ELSE \E ok \in BOOLEAN :
              IF ok
              THEN /\ remote' = Put(remote, version, local[version])
                   /\ pc' = "major_tag"
                   /\ UNCHANGED outcome
              ELSE /\ Fatal("git_push", "command")
                   /\ remote' = remote
    /\ UNCHANGED <<head, local, releases, fixed, version, list_ok, fetched, release_notes>>

\* git tag <major_version> <version> without -f, its failure tolerated: an
\* existing major tag stays where it is
git_tag_f_keep ==
    /\ pc = "major_tag"
    /\ Issue("git_tag_f")
    /\ local' = IF major_version(version) \in DOMAIN local THEN local
                ELSE Put(local, major_version(version), local[version])
    /\ pc' = "major_push"
    /\ UNCHANGED outcome
    /\ UNCHANGED <<head, remote, releases, fixed, version, list_ok, fetched, release_notes>>

\* _create_and_push_tags: git tag -f <major_version> <version>
git_tag_f ==
    /\ pc = "major_tag"
    /\ Issue("git_tag_f")
    /\ \E ok \in BOOLEAN :
          IF ok
          THEN /\ local' = Put(local, major_version(version), local[version])
               /\ pc' = "major_push"
               /\ UNCHANGED outcome
          ELSE /\ Fatal("git_tag_f", "command")
               /\ local' = local
    /\ UNCHANGED <<head, remote, releases, fixed, version, list_ok, fetched, release_notes>>

\* _create_and_push_tags: git push origin <major_version> --force
git_push_force ==
    /\ pc = "major_push"
    /\ Issue("git_push_force")
    /\ \E ok \in BOOLEAN :
          IF ok
          THEN /\ remote' = Put(remote, major_version(version),
                                local[major_version(version)])
               /\ pc' = "release"
               /\ UNCHANGED outcome
          ELSE /\ Fatal("git_push_force", "command")
               /\ remote' = remote
    /\ UNCHANGED <<head, local, releases, fixed, version, list_ok, fetched, release_notes>>

\* gh release create that accepts a version that already has a release
gh_release_create_again ==
    /\ pc = "release"
    /\ Issue("gh_release_create")
    /\ \E ok \in BOOLEAN :
          IF ok
          THEN /\ releases' = releases \cup {version}
               /\ pc' = "done"
               /\ exit' = 0
               /\ failure' = failure
          ELSE /\ Fatal("gh_release_create", "command")
               /\ releases' = releases
    /\ UNCHANGED <<head, local, remote, fixed, version, list_ok, fetched, release_notes>>

\* create_and_publish_release: gh release create <version> --latest, which
\* refuses a version that already has a release.
gh_release_create ==
    /\ pc = "release"
    /\ Issue("gh_release_create")
    /\ IF version \in releases
       THEN /\ Fatal("gh_release_create", "exists")
            /\ releases' = releases
       ELSE \E ok \in BOOLEAN :
              IF ok
              THEN /\ releases' = releases \cup {version}
                   /\ pc' = "done"
                   /\ exit' = 0
                   /\ failure' = failure
              ELSE /\ Fatal("gh_release_create", "command")
                   /\ releases' = releases
    /\ UNCHANGED <<head, local, remote, fixed, version, list_ok, fetched, release_notes>>

\* main up to the version decision, in the manual context
Decide ==
    \/ __init__
    \/ main
    \/ notes_version
    \/ generate_release_notes
    \/ create_and_publish_release

\* the live path of create_and_publish_release
Publish ==
    \/ git_config
    \/ git_tag_a
    \/ git_push
    \/ git_tag_f
    \/ git_push_force
    \/ gh_release_create

Next ==
    \/ Decide
    \/ fetch_upstream_notes
    \/ Publish

Spec == Init /\ [][Next]_vars

\* ------------------------------------------------------------------------
\* Runs one after the other on the same repository
\* ------------------------------------------------------------------------
\* Logs of a later run: the commits since the last tag are other ones.
NextHistories ==
    {<<LogLine(1, Build("fix", NoScope, FALSE, <<"1">>))>>,
     <<LogLine(1, Build("fix", NoScope, TRUE, <<"1">>))>>}

\* `if __name__ == "__main__"`: the next process starts once the previous
\* one has exited, in the same working directory or in a fresh clone of the
\* same commit, with DRY_RUN set either way.
NewRun ==
    /\ pc \in {"done", "failed"}
    /\ runs < MaxRuns
    /\ runs' = runs + 1
    /\ prev' = [env |-> env, start |-> start, pc |-> pc, version |-> version,
                list_ok |-> list_ok, notes |-> notes, failure |-> failure,
                suggested_version_type |-> suggested_version_type]
    /\ history' \in IF env.CUSTOM_NOTES = NoText THEN NextHistories ELSE {history}
    /\ \E dry \in {"true", "false"} : env' = [env EXCEPT !.DRY_RUN = dry]
    /\ local' \in {local, remote}
    /\ UNCHANGED <<head, remote, releases, api_body, other, runner>>
    /\ pc' = "start"
    /\ log' = <<>>
    /\ version' = None
    /\ list_ok' = NoneStr
    /\ dependency' = None
    /\ api_status' = NoneStr
    /\ upstream' = NoneStr
    /\ upstream_notes' = <<>>
    /\ notes' = NoneStr
    /\ document' = <<>>
    /\ log_read' = NoneStr
    /\ commits' = <<>>
    /\ suggested_version_type' = NoneStr
    /\ sections' = <<>>
    /\ failure' = None
    /\ exit' = -1
    /\ start' = [local |-> local', remote |-> remote, releases |-> releases]

\* First run of a sequence: a manual run with custom notes on a fresh clone,
\* at the first commit, of a repository whose version tags all have a
\* release.
InitSeq ==
    /\ Init
    /\ env.GITHUB_TOKEN
    /\ env.CUSTOM_NOTES # NoText
    /\ head = 1
    /\ env.TRIGGER_TYPE = "workflow_dispatch"
    /\ local = remote
    /\ releases # {} \/ \A n \in DOMAIN remote : n.shape \notin {"ver", "pre"}

NextSeq ==
    \/ Decide
    \/ Publish
    \/ NewRun

SpecSeq == InitSeq /\ [][NextSeq]_vars

\* First run of a sequence whose runs see different commits: a manual dry
\* run without custom notes on a fresh clone at the first commit.
InitHistory ==
    /\ Init
    /\ env.GITHUB_TOKEN
    /\ env.TRIGGER_TYPE = "workflow_dispatch"
    /\ env.CUSTOM_NOTES = NoText
    /\ env.DRY_RUN = "true"
    /\ head = 1
    /\ local = remote
    /\ releases = {}

SpecHistory == InitHistory /\ [][NextSeq]_vars

\* ------------------------------------------------------------------------
\* Automatic notes over a wider range of commits
\* ------------------------------------------------------------------------
SampleTypes == {"feat", "fix", "perf", "docs", "refactor", "chore", "revert"}

\* Subjects of the i-th commit of a log: its number is its description.
Messages(i) ==
    {Build(t, NoScope, b, <<ToString(i)>>) : t \in SampleTypes, b \in BOOLEAN}
    \cup {Build("fix", <<"api">>, FALSE, <<ToString(i)>>),
          <<"Add", " ", ToString(i)>>}

\* The logs of n lines at most
RECURSIVE Logs(_)
Logs(n) ==
    IF n = 0 THEN {<<>>}
    ELSE LET R == Logs(n - 1)
         IN  R \cup {Append(h, LogLine(n, m)) :
                        h \in {r \in R : Len(r) = n - 1}, m \in Messages(n)}

\* A manual dry run without custom notes on a fresh clone with tag v1.0.0
InitManualDry ==
    /\ env \in RunEnvs
    /\ env.GITHUB_TOKEN
    /\ env.TRIGGER_TYPE = "workflow_dispatch"
    /\ env.CUSTOM_NOTES = NoText
    /\ env.DRY_RUN = "true"
    /\ head = 1
    /\ remote = [n \in {Ver(1, 0, 0)} |-> 1]
    /\ local = remote
    /\ releases = {}
    /\ InitRun
    /\ api_body = <<>>
    /\ runs = 1
    /\ prev = None

\* ... where git log prints any MaxLog lines at most.
InitNotes ==
    /\ InitManualDry
    /\ history \in Logs(MaxLog)

SpecNotes == InitNotes /\ [][Decide]_vars

\* A call of _analyze_commits_for_version_bump on any list of commits, the
\* empty one included.
InitAnalyze ==
    /\ InitNotes
    /\ env.VERSION_TYPE = "patch"

analyze ==
    /\ pc = "start"
    /\ commits' = parse_lines(history)
    /\ suggested_version_type' = _analyze_commits_for_version_bump(commits')
    /\ pc' = "done"
    /\ UNCHANGED <<repo, fixed, outcome, log, version, list_ok, fetched,
                   notes, log_read, sections, document>>

SpecAnalyze == InitAnalyze /\ [][analyze]_vars

\* ------------------------------------------------------------------------
\* Parsing of one commit message
\* ------------------------------------------------------------------------
ParseAlphabet == {"feat", "fix", "(", ")", "!", ":", " ", "|", "x"}

SampleScopes == {NoScope, <<"api">>, <<"api", ":", " ", "(", "v2">>}

SampleDescriptions ==
    {<<"x">>, <<" ", "x">>, <<"Add", " ", "bugfix">>,
     <<"x", ":", " ", "(", "y", ")", "!">>}

\* The messages of the form type(scope)!: description over the samples,
\* as they are and between whitespace
BuiltMessages ==
    LET B == {Build(t, sc, b, d) : t \in CommitTypes, sc \in SampleScopes,
                                  b \in BOOLEAN, d \in SampleDescriptions}
    IN  B \cup {<<" ">> \o m \o <<"\t">> : m \in B}

\* Words with and without keywords of the fallback
KeywordWords ==
    {"Fix", "dispatch", "Add", "renewal", "bump", "Cleanup", "README", "docs",
     "misc"}

\* The subjects of MaxWords words at most
WordMessages == {Join(ws) : ws \in SeqsUpTo(KeywordWords, MaxWords)}

\* A manual dry run whose log is one line with any subject of MaxMsg tokens
\* at most, or with a message of the samples.
InitParse ==
    /\ InitManualDry
    /\ env.VERSION_TYPE = "patch"
    /\ \E m \in SeqsUpTo(ParseAlphabet, MaxMsg) \cup BuiltMessages
                \cup WordMessages :
          history = <<LogLine(1, m)>>

SpecParse == InitParse /\ [][Decide]_vars

\* ------------------------------------------------------------------------
\* Version computation over a wider range of tags
\* ------------------------------------------------------------------------
Components == 0..MaxComp

VersionTags ==
    {Ver(a, b, c) : a \in Components, b \in Components, c \in Components}

OtherTags ==
    {Pre(a, b, c) : a \in Components, b \in Components, c \in Components}
    \cup {Maj(a) : a \in 1..(MaxComp + 1)} \cup {Word}

\* A manual run with custom notes on a fresh clone whose tags are any
\* MaxInitTags names at most.
InitVersion ==
    /\ env \in RunEnvs
    /\ env.GITHUB_TOKEN
    /\ env.TRIGGER_TYPE = "workflow_dispatch"
    /\ env.CUSTOM_NOTES # NoText
    /\ head = 1
    /\ \E S \in SubsetsUpTo(VersionTags \cup OtherTags, MaxInitTags) :
          remote = [n \in S |-> 1]
    /\ local = remote
    /\ releases = {}
    /\ InitRun
    /\ history = <<>>
    /\ api_body = <<>>
    /\ runs = 1
    /\ prev = None

SpecVersion == InitVersion /\ [][Decide]_vars

TypeOK ==
    /\ env \in Envs
    /\ head \in Commits
    /\ pc \in {"start", "main", "fetch", "notes_version", "notes", "publish",
               "config_name", "config_email", "tag", "push", "major_tag",
               "major_push", "release", "done", "failed"}
    /\ exit \in {-1, 0, 1}


\* ------------------------------------------------------------------------
\* Properties
\* ------------------------------------------------------------------------
\* commands that change the clone, the remote or the releases
Mutating ==
    {"git_config", "git_tag_a", "git_push", "git_tag_f", "git_push_force",
     "gh_release_create"}

\* commands that talk to the network
Network == {"gh_api", "git_push", "git_push_force", "gh_release_create"}

Issued(cmds) == \E i \in DOMAIN log : log[i] \in cmds

IsMutating(cmd) == cmd \in Mutating

\* the publish commands of a live run, in the order of the source
PublishOrder ==
    <<"git_config", "git_config", "git_tag_a", "git_push", "git_tag_f",
      "git_push_force", "gh_release_create">>

IsPrefix(s, t) == Len(s) <= Len(t) /\ SubSeq(t, 1, Len(s)) = s

Live == env.GITHUB_TOKEN /\ ~config.dry_run

\* C1: a dry run issues no mutating command, leaves the tags of the clone,
\* the tags of the remote and the releases as they were when it started, and
\* ends returning the version computed from the tags it started with.
C1_DryRunMutatesNothing ==
    config.dry_run =>
        /\ ~Issued(Mutating)
        /\ local = start.local
        /\ remote = start.remote
        /\ releases = start.releases
        /\ failure = None
        /\ pc = "done" =>
              /\ exit = 0
              /\ version = get_next_version(DOMAIN start.local,
                                            config.version_type, list_ok = "ok")

C1_Witness ==
    /\ config.dry_run
    /\ pc = "done"
    /\ version = Ver(1, 0, 2)
    /\ remote # EmptyTags

\* C2: a dry run invokes no network operation at any point of main, in
\* either context.
C2_DryRunNoNetwork == config.dry_run => ~Issued(Network)

\* C4: when the version tag to create already exists in the clone on the
\* current commit, the live run is not ended by the creation of that tag.
C4_RetagSameCommitSucceeds ==
    (/\ Live
     /\ version # None
     /\ version \in DOMAIN start.local
     /\ start.local[version] = head)
    => ~(failure # None /\ failure.cmd = "git_tag_a" /\ failure.cause = "exists")

\* the run is about to create, or has tried to create, a version tag that
\* exists on another commit, in the clone or on the remote
Conflict ==
    /\ Live
    /\ version # None
    /\ \/ version \in DOMAIN start.local /\ start.local[version] # head
       \/ version \in DOMAIN start.remote /\ start.remote[version] # head

Kept(tags, tags2) ==
    \A n \in DOMAIN tags :
        n.shape # "maj" => n \in DOMAIN tags2 /\ tags2[n] = tags[n]

\* C5: no step removes or re-points an existing tag other than a floating
\* major tag, in the clone or on the remote; a live run whose version tag
\* exists on another commit never gets past the push of that tag and ends
\* with exit status 1.
C5_VersionTagNeverMoved ==
    /\ [](Conflict =>
            /\ pc \notin {"major_tag", "major_push", "release", "done"}
            /\ pc = "failed" => exit = 1)
    /\ [][Kept(local, local') /\ Kept(remote, remote')]_vars

C5_Witness ==
    /\ Conflict
    /\ pc = "failed"
    /\ failure # None
    /\ failure.cause \in {"exists", "rejected"}
    /\ \/ version \in DOMAIN local /\ local[version] # head
       \/ version \in DOMAIN remote /\ remote[version] # head

\* C6: once a publish command has failed, the run is over with exit status
\* 1, the failed command is the last one issued, and what the commands
\* before it did is still in place.
C6_FailureHaltsWithoutRollback ==
    failure # None =>
        /\ pc = "failed"
        /\ exit = 1
        /\ log # <<>>
        /\ log[Len(log)] = failure.cmd
        /\ IsPrefix(SelectSeq(log, IsMutating), PublishOrder)
        /\ failure.cmd \in {"git_push", "git_tag_f", "git_push_force", "gh_release_create"}
              => version \in DOMAIN local /\ local[version] = head
        /\ failure.cmd \in {"git_tag_f", "git_push_force", "gh_release_create"}
              => version \in DOMAIN remote /\ remote[version] = head
        /\ failure.cmd \in {"git_push_force", "gh_release_create"}
              => /\ major_version(version) \in DOMAIN local
                 /\ local[major_version(version)] = head
        /\ failure.cmd = "gh_release_create"
              => /\ major_version(version) \in DOMAIN remote
                 /\ remote[major_version(version)] = head

C6_Witness ==
    /\ failure # None
    /\ failure.cmd = "gh_release_create"
    /\ version \notin DOMAIN start.remote
    /\ version \in DOMAIN remote
    /\ version \notin releases

\* C7: the publish commands are issued in the order tag, push, major tag,
\* forced push of the major tag, release, after the two git config calls; a
\* live run that ends well has issued them all; a release made by the run
\* has its version tag on the remote.
C7_PublishOrder ==
    /\ IsPrefix(SelectSeq(log, IsMutating), PublishOrder)
    /\ Live /\ pc = "done" => SelectSeq(log, IsMutating) = PublishOrder
    /\ \A r \in releases \ start.releases :
          /\ r = version
          /\ r \in DOMAIN remote
          /\ major_version(r) \in DOMAIN remote

C7_Witness ==
    /\ Live
    /\ pc = "done"
    /\ version \in releases \ start.releases

\* C8: after a live run that ends well, the floating major tag exists in
\* the clone and on the remote and is on the commit of the version tag.
C8_MajorTagFollows ==
    Live /\ pc = "done" =>
        /\ version \in DOMAIN remote
        /\ major_version(version) \in DOMAIN remote
        /\ remote[major_version(version)] = remote[version]
        /\ major_version(version) \in DOMAIN local
        /\ local[major_version(version)] = local[version]
        /\ remote[version] = head

C8_Witness ==
    /\ Live
    /\ pc = "done"
    /\ major_version(version) \in DOMAIN start.remote
    /\ start.remote[major_version(version)] # head


\* the summary of the previous run and the current run differ in DRY_RUN
\* only: a dry run that ended, then a live run from the same tags with the
\* same outcome of the tag listing
DryThenLive ==
    /\ prev # None
    /\ prev.pc = "done"
    /\ prev.env.DRY_RUN = "true"
    /\ env = [prev.env EXCEPT !.DRY_RUN = "false"]
    /\ start.local = prev.start.local
    /\ list_ok = prev.list_ok

\* version tags the current run has created in the clone
CreatedVersionTags ==
    {n \in DOMAIN local \ DOMAIN start.local : n.shape = "ver"}

\* C3: the version a dry run returned is the version, and the only version
\* tag, that a live run from the same tags and configuration creates.
C3_DryRunSameVersion ==
    DryThenLive =>
        /\ version = prev.version
        /\ \A n \in CreatedVersionTags : n = prev.version

C3_Witness ==
    /\ DryThenLive
    /\ CreatedVersionTags = {prev.version}
    /\ prev.version = Ver(2, 0, 0)

\* latest_tag of get_next_version, None when the function did not get to it
latest_tag ==
    IF list_ok = "ok" /\ DOMAIN start.local # {}
    THEN git_tag_list(DOMAIN start.local)[1]
    ELSE None

TupleGreater(v, t) ==
    \/ v.major > t.major
    \/ v.major = t.major /\ v.minor > t.minor
    \/ v.major = t.major /\ v.minor = t.minor /\ v.patch > t.patch

\* C9: when the last tag is of the form v<a>.<b>.<c>, the next version is
\* greater in tuple order, of the same form, and is v<a+1>.0.0 for major,
\* v<a>.<b+1>.0 for minor, v<a>.<b>.<c+1> for patch.
C9_NextVersionIncrements ==
    (version # None /\ latest_tag # None /\ latest_tag.shape = "ver") =>
        /\ version.shape = "ver"
        /\ TupleGreater(version, latest_tag)
        /\ config.version_type = "major" =>
              /\ version.major = latest_tag.major + 1
              /\ version.minor = 0
              /\ version.patch = 0
        /\ config.version_type = "minor" =>
              /\ version.major = latest_tag.major
              /\ version.minor = latest_tag.minor + 1
              /\ version.patch = 0
        /\ config.version_type = "patch" =>
              /\ version.major = latest_tag.major
              /\ version.minor = latest_tag.minor
              /\ version.patch = latest_tag.patch + 1

C9_Witness ==
    /\ version # None
    /\ latest_tag # None
    /\ latest_tag.shape = "ver"
    /\ latest_tag.patch > 0
    /\ latest_tag.minor > 0
    /\ config.version_type = "minor"

\* C10: when the clone has no tag of the form v<a>.<b>.<c>, the version
\* computed is v1.0.0, whatever the version type.
C10_BootstrapVersion ==
    (version # None /\ \A n \in DOMAIN start.local : n.shape # "ver")
        => version = Ver(1, 0, 0)

\* tags of the clone of the exact form v<a>.<b>.<c>
WellFormed ==
    {n \in DOMAIN start.local : n.shape = "ver"}

\* the numerically greatest of a non-empty set of tags v<a>.<b>.<c>
Greatest(S) ==
    CHOOSE m \in S : \A n \in S : n = m \/ TupleGreater(m, n)

\* the version that follows tag t for a version type
Increment(t, version_type) ==
    CASE version_type = "major" -> Ver(t.major + 1, 0, 0)
      [] version_type = "minor" -> Ver(t.major, t.minor + 1, 0)
      [] OTHER -> Ver(t.major, t.minor, t.patch + 1)

\* C11: after a listing that succeeded, the version is computed from the
\* numerically greatest tag of the exact form v<a>.<b>.<c> (v1.0.0 when
\* there is none); tags of any other form have no influence on it.
C11_MalformedTagsIgnored ==
    (version # None /\ list_ok = "ok") =>
        version = IF WellFormed = {}
                  THEN Ver(1, 0, 0)
                  ELSE Increment(Greatest(WellFormed), config.version_type)

\* two manual runs, one after the other, that started from the same tags
\* with the same version type and the same outcome of the tag listing
SameTagsAndType ==
    /\ prev # None
    /\ prev.version # None
    /\ version # None
    /\ prev.start.local = start.local
    /\ prev.env.VERSION_TYPE = env.VERSION_TYPE
    /\ prev.list_ok = list_ok

\* C12: two manual runs from the same tags with the same version type
\* compute the same version, and the later one creates no other version
\* tag, whatever commits each of them read and whatever version type these
\* commits suggest.
C12_VersionIgnoresSuggestion ==
    SameTagsAndType =>
        /\ version = prev.version
        /\ \A n \in CreatedVersionTags : n = prev.version

C12_Witness ==
    /\ SameTagsAndType
    /\ prev.suggested_version_type = "minor"
    /\ suggested_version_type = "major"
    /\ config.version_type = "patch"
    /\ pc = "done"
    /\ CreatedVersionTags = {version}

HasBreaking == \E i \in 1..Len(commits) : commits[i].breaking
HasFeature == \E i \in 1..Len(commits) : commits[i].type = "feat"

\* C13: the version type suggested for a list of commits is major when a
\* commit is breaking, else minor when a commit has type feat, else patch,
\* which is also the value for the empty list.
C13_SuggestedVersionType ==
    suggested_version_type # NoneStr =>
        /\ HasBreaking => suggested_version_type = "major"
        /\ (~HasBreaking /\ HasFeature) => suggested_version_type = "minor"
        /\ (~HasBreaking /\ ~HasFeature) => suggested_version_type = "patch"

C13_Witness ==
    /\ suggested_version_type = "patch"
    /\ commits = <<>>

\* the notes of a manual run without custom notes have been generated
NotesFromCommits == notes \in {"automatic", "generic"}

\* suggestKind of the list of commits the run read
SuggestKind ==
    IF HasBreaking THEN "major" ELSE IF HasFeature THEN "minor" ELSE "patch"

CalloutAt(i) ==
    /\ i \in 1..Len(sections)
    /\ sections[i] = Heading("Version Recommendation")

HasCallout == \E i \in 1..Len(sections) : CalloutAt(i)

\* the note on breaking changes, in the block of the callout
HasBreakingNote ==
    \E i \in 1..Len(sections), j \in 1..Len(sections) :
        /\ CalloutAt(i)
        /\ i < j
        /\ sections[j].kind = "note"
        /\ \A k \in i..j : sections[k].kind # "blank"

CalloutRule ==
    /\ HasCallout <=> SuggestKind # config.version_type
    /\ (HasBreaking /\ config.version_type # "major") => HasBreakingNote

Subject(i) == SubSeq(history[i], HashLen + 2, Len(history[i]))

\* C15: every line read from the log gives one commit of the list, in
\* order, whose type is one of the eleven types, whatever the subject (empty
\* or not of the conventional form), and the run does not fail on it.
C15_ClassificationTotal ==
    log_read = "ok" =>
        /\ Len(commits) = Len(history)
        /\ \A i \in 1..Len(commits) :
              /\ commits[i].type \in CommitTypes
              /\ commits[i].hash = SubSeq(history[i], 1, 7)
        /\ failure = None

C15_Witness ==
    /\ log_read = "ok"
    /\ Len(history) = 1
    /\ Subject(1) = <<>>
    /\ Len(commits) = 1
    /\ commits[1].type = "chore"

\* a sequence without the whitespace at its two ends
RECURSIVE Trimmed(_)
Trimmed(s) ==
    IF s = <<>> THEN s
    ELSE IF Head(s) \in {" ", "\t"} THEN Trimmed(Tail(s))
    ELSE IF s[Len(s)] \in {" ", "\t"} THEN Trimmed(SubSeq(s, 1, Len(s) - 1))
    ELSE s

\* the ways to read m as type(scope)!: description, with a scope that is
\* not empty and holds no closing parenthesis and a description that is
\* not empty
Readings(m) ==
    {r \in [type : {t \in CommitTypes : m # <<>> /\ m[1] = t},
            scope : {NoScope} \cup {SubSeq(m, 3, k) : k \in 3..Len(m)},
            breaking : BOOLEAN,
            description : {SubSeq(m, k, Len(m)) : k \in 1..Len(m)}] :
        /\ \A k \in 1..Len(r.scope) : r.scope[k] # ")"
        /\ m = Build(r.type, r.scope, r.breaking, r.description)}

\* C16: a subject that, whitespace at its ends apart, is built as
\* type(scope)!: description gives a commit with that type, that scope (none
\* when none is written), that description, and breaking exactly when the
\* `!` is written; any other subject gives breaking = false and no scope.
C16_RoundTrip ==
    (log_read = "ok" /\ Len(history) = 1 /\ Len(commits) = 1) =>
        LET m == Trimmed(Subject(1))
            c == commits[1]
        IN  /\ \A r \in Readings(m) :
                  /\ c.type = r.type
                  /\ c.scope = r.scope
                  /\ c.description = r.description
                  /\ c.breaking = r.breaking
            /\ Readings(m) = {} => (~c.breaking /\ c.scope = NoScope)

C16_Witness ==
    /\ log_read = "ok"
    /\ Len(history) = 1
    /\ Subject(1) = <<" ", "fix", "(", "api", ")", "!", ":", " ", "x", "\t">>
    /\ Len(commits) = 1
    /\ commits[1].breaking
    /\ commits[1].scope = <<"api">>
    /\ commits[1].description = <<"x">>

\* headings of the sections of changes, in their order
ChangeHeadings ==
    <<"Breaking Changes", "New Features", "Bug Fixes",
      "Performance Improvements", "Documentation", "Maintenance">>

HasHeading(text) == \E i \in 1..Len(sections) : sections[i] = Heading(text)

\* the lines between the heading `text` and the blank line that ends its
\* section, <<>> when the heading is absent
SectionOf(text) ==
    IF ~HasHeading(text) THEN <<>>
    ELSE LET h == CHOOSE i \in 1..Len(sections) : sections[i] = Heading(text)
             e == CHOOSE j \in (h + 1)..Len(sections) :
                     /\ sections[j].kind = "blank"
                     /\ \A k \in (h + 1)..(j - 1) : sections[k].kind # "blank"
         IN  SubSeq(sections, h + 1, e - 1)

\* commit i has an entry in the section `text`; the descriptions of the
\* commits of a log differ
ListedIn(i, text) ==
    \E k \in 1..Len(SectionOf(text)) :
        /\ SectionOf(text)[k].kind = "entry"
        /\ SectionOf(text)[k].description = commits[i].description

\* C17: in automatic notes, every breaking commit has an entry in Breaking
\* Changes and in no other section, whatever its type.
C17_BreakingOnlyInBreaking ==
    notes = "automatic" =>
        \A i \in 1..Len(commits) :
            commits[i].breaking =>
                /\ ListedIn(i, "Breaking Changes")
                /\ \A h \in 2..Len(ChangeHeadings) : ~ListedIn(i, ChangeHeadings[h])

\* C18: in automatic notes, each heading of a section of changes is
\* followed by one entry at least.
C18_NoEmptySection ==
    notes = "automatic" =>
        \A h \in 1..Len(ChangeHeadings) :
            HasHeading(ChangeHeadings[h]) => SectionOf(ChangeHeadings[h]) # <<>>

\* number of commits that satisfy P
Count(P(_)) == Cardinality({i \in 1..Len(commits) : P(commits[i])})

\* the statistics hold the line `label: n` when n > 0 and no line with
\* that label when n = 0
CountLine(label, n) ==
    LET lines == {k \in 1..Len(SectionOf("Release Statistics")) :
                     SectionOf("Release Statistics")[k].text = label}
    IN  IF n = 0 THEN lines = {}
        ELSE /\ Cardinality(lines) = 1
             /\ \A k \in lines : SectionOf("Release Statistics")[k].count = n

MaintenanceTypes == {"refactor", "chore", "ci", "build", "style", "test"}

\* C19: the statistics of automatic notes hold one count line for each of
\* features, fixes, performance, documentation, maintenance and breaking
\* that has a commit, a breaking commit being counted under its type as
\* well, and the total number of commits.
C19_StatisticsPerCategory ==
    notes = "automatic" =>
        /\ CountLine("Breaking Changes", Count(LAMBDA c : c.breaking))
        /\ CountLine("New Features", Count(LAMBDA c : c.type = "feat"))
        /\ CountLine("Bug Fixes", Count(LAMBDA c : c.type = "fix"))
        /\ CountLine("Performance Improvements", Count(LAMBDA c : c.type = "perf"))
        /\ CountLine("Documentation", Count(LAMBDA c : c.type = "docs"))
        /\ CountLine("Maintenance", Count(LAMBDA c : c.type \in MaintenanceTypes))
        /\ CountLine("Total Changes", Len(commits))

\* position in the list of commits of the commit an entry is for
PositionOf(entry) ==
    CHOOSE i \in 1..Len(commits) : commits[i].description = entry.description

\* C20: in automatic notes, the entries of each section, Maintenance
\* included, are in the order of their commits in the list.
C20_InputOrderInSections ==
    notes = "automatic" =>
        \A h \in 1..Len(ChangeHeadings) :
            LET sec == SectionOf(ChangeHeadings[h])
            IN  \A k \in 1..Len(sec), l \in 1..Len(sec) :
                    k < l => PositionOf(sec[k]) < PositionOf(sec[l])

\* C29: in automatic notes every commit of the list, whatever its type
\* (revert included), has an entry in one section of changes at least, so
\* that as many commits are listed as Total Changes counts.
C29_EveryCommitListed ==
    notes = "automatic" =>
        /\ \A i \in 1..Len(commits) :
              \E h \in 1..Len(ChangeHeadings) : ListedIn(i, ChangeHeadings[h])
        /\ CountLine("Total Changes",
                     Cardinality({i \in 1..Len(commits) :
                        \E h \in 1..Len(ChangeHeadings) :
                            ListedIn(i, ChangeHeadings[h])}))

\* C27: the version computed is not the name of a tag the clone has,
\* whatever the tags and whether the tag listing succeeded or not.
C27_VersionIsFresh ==
    version # None => version \notin DOMAIN start.local

\* the classes of keywords of the fallback, in their order, with the type
\* each one stands for
KeywordClasses ==
    << [words |-> {"fix", "bug", "resolve", "patch"}, type |-> "fix"],
       [words |-> {"add", "new", "feature", "implement"}, type |-> "feat"],
       [words |-> {"update", "upgrade", "bump"}, type |-> "chore"],
       [words |-> {"refactor", "clean", "reorganize"}, type |-> "refactor"],
       [words |-> {"doc", "readme", "comment"}, type |-> "docs"] >>

\* the classes that have a keyword in the lower-case form of m
ClassesIn(m) ==
    {k \in 1..Len(KeywordClasses) :
        \E i \in 1..Len(m) :
            keywords_in(lower(m[i])) \cap KeywordClasses[k].words # {}}

\* C25: a subject that is not of the conventional form gets the type of the
\* first class of keywords, in the order fix, feat, chore, refactor, docs,
\* that has a keyword in the lower-case subject, and chore when none has.
C25_FirstKeywordClass ==
    (log_read = "ok" /\ Len(history) = 1 /\ Len(commits) = 1
        /\ Readings(Trimmed(Subject(1))) = {}) =>
        commits[1].type =
            IF ClassesIn(Subject(1)) = {} THEN "chore"
            ELSE LET first == CHOOSE k \in ClassesIn(Subject(1)) :
                                \A j \in ClassesIn(Subject(1)) : k <= j
                 IN  KeywordClasses[first].type

C25_Witness ==
    /\ log_read = "ok"
    /\ Len(history) = 1
    /\ Subject(1) = <<"README", " ", "Add">>
    /\ Len(commits) = 1
    /\ commits[1].type = "feat"

\* a text that is empty or made of whitespace only
IsBlank(text) == \A i \in 1..Len(text) : text[i] \in {" ", "\t", "\n"}

\* C22: a run in the Dependabot context whose PR_TITLE is absent or blank
\* ends in __init__ with exit status 1 and has issued no external command.
C22_MissingTitleIsFatal ==
    (env.TRIGGER_TYPE # "workflow_dispatch" /\ IsBlank(env.PR_TITLE)
        /\ pc # "start") =>
        /\ pc = "failed"
        /\ exit = 1
        /\ log = <<>>

C22_Witness ==
    /\ env.GITHUB_TOKEN
    /\ env.TRIGGER_TYPE = "pull_request"
    /\ env.PR_TITLE = <<" ">>
    /\ pc = "failed"
    /\ log = <<>>

\* ------------------------------------------------------------------------
\* Dependency updates: dry runs in the Dependabot context, for any title
\* ------------------------------------------------------------------------
InitExtract ==
    /\ env \in Envs
    /\ env.GITHUB_TOKEN
    /\ env.TRIGGER_TYPE = "pull_request"
    /\ env.VERSION_TYPE = "patch"
    /\ env.DRY_RUN = "true"
    /\ env.CUSTOM_NOTES = NoText
    /\ ~IsBlank(env.PR_TITLE)
    /\ head = 1
    /\ remote = [n \in {Ver(1, 0, 0)} |-> 1]
    /\ local = remote
    /\ releases = {}
    /\ InitRun
    /\ history = <<>>
    /\ api_body \in SeedBodies
    /\ runs = 1
    /\ prev = None

Dependabot ==
    \/ __init__
    \/ main
    \/ fetch_upstream_notes
    \/ notes_version
    \/ generate_release_notes
    \/ create_and_publish_release

SpecExtract == InitExtract /\ [][Dependabot]_vars

\* C21: the versions extract_dependency_info returns follow the list of
\* major.minor.patch matches of the title: none gives ("unknown", "latest"),
\* one match t gives (vt, vt), two or more give (v<first>, v<second>); the
\* name is the first owner/repo match, and a title without one gives the
\* empty name with a warning while the run goes on without failing.
C21_ExtractDependencyInfo ==
    dependency # None =>
        LET t == version_matches(config.pr_title)
            names == SelectSeq(config.pr_title, LAMBDA w : action_in(w) # "")
        IN  /\ Len(t) = 0 =>
                  /\ dependency.old_version = "unknown"
                  /\ dependency.new_version = "latest"
            /\ Len(t) = 1 =>
                  /\ dependency.old_version = v_prefixed(t[1])
                  /\ dependency.new_version = v_prefixed(t[1])
            /\ Len(t) >= 2 =>
                  /\ dependency.old_version = v_prefixed(t[1])
                  /\ dependency.new_version = v_prefixed(t[2])
            /\ names # <<>> =>
                  /\ dependency.action_name = action_in(names[1])
                  /\ ~dependency.warning
            /\ names = <<>> =>
                  /\ dependency.action_name = ""
                  /\ dependency.warning
            /\ pc # "failed"
            /\ exit # 1

C21_Witness ==
    /\ env.PR_TITLE = BumpTitle
    /\ pc = "done"
    /\ dependency = [action_name |-> "ossf/scorecard-action",
                     old_version |-> "v2.4.0", new_version |-> "v2.4.2",
                     warning |-> FALSE]

\* ------------------------------------------------------------------------
\* Upstream notes: dry runs in the Dependabot context, for any body
\* ------------------------------------------------------------------------
\* Bodies of the upstream release: up to MaxBody lines of content, the same
\* between blank lines, the literal null, and lines with white space at the
\* ends of the output
Bodies ==
    {Numbered(n) : n \in 0..MaxBody}
    \cup {<<BodyLine("", 0)>> \o Numbered(n) \o <<BodyLine(" ", 0)>> :
            n \in 0..MaxBody}
    \cup {<<BodyLine("null", 0)>>,
          <<BodyLine("", 0), BodyLine("null", 0), BodyLine("", 0)>>,
          <<BodyLine(" line", 1), BodyLine("null", 0)>>,
          <<BodyLine("null", 0), BodyLine("line ", 2)>>}

InitFetch ==
    /\ env \in RunEnvs
    /\ env.GITHUB_TOKEN
    /\ env.TRIGGER_TYPE = "pull_request"
    /\ env.DRY_RUN = "true"
    /\ env.PR_TITLE = BumpTitle
    /\ head = 1
    /\ remote = [n \in {Ver(1, 0, 0)} |-> 1]
    /\ local = remote
    /\ releases = {}
    /\ InitRun
    /\ history = <<>>
    /\ api_body \in Bodies
    /\ runs = 1
    /\ prev = None

SpecFetch == InitFetch /\ [][Dependabot]_vars

\* the lookup of fetch_upstream_notes has returned
Fetched == api_status # NoneStr

\* the fallback notes for the name and the versions of the title
IsFallback(lines) == lines = _generate_fallback_notes(dependency)

FirstLines(lines, n) == SubSeq(lines, 1, IF Len(lines) < n THEN Len(lines) ELSE n)

\* C23: fetch_upstream_notes never aborts the run; a non-zero status, an
\* empty body, the literal null or a raised exception give the fallback
\* notes for (name, old, new), and a lookup that succeeds gives exactly the
\* first 50 lines of the fetched body, the whole body when it has at most 50.
C23_UpstreamNotes ==
    Fetched =>
        /\ pc # "failed"
        /\ IF \/ api_status \in {"nonzero", "raises"}
              \/ api_body = <<>>
              \/ api_body = <<BodyLine("null", 0)>>
           THEN IsFallback(upstream_notes)
           ELSE upstream_notes = FirstLines(api_body, 50)

\* the body without the white space around it: no blank line at either
\* end, no space before the first line or after the last
Stripped(body) ==
    LET content == {i \in DOMAIN body : body[i].text \notin {"", " "}}
    IN  IF content = {} THEN <<>>
        ELSE LET lo == CHOOSE i \in content : \A j \in content : i <= j
                 hi == CHOOSE i \in content : \A j \in content : j <= i
             IN  [k \in 1..(hi - lo + 1) |->
                    LET l == body[lo + k - 1]
                    IN  IF k = 1 /\ l.text = " line"
                        THEN [l EXCEPT !.text = "line"]
                        ELSE IF k = hi - lo + 1 /\ l.text = "line "
                        THEN [l EXCEPT !.text = "line"]
                        ELSE l]

\* C23, amended: as C23 for the body without the white space around it.
C23_UpstreamNotesOfStrippedBody ==
    Fetched =>
        /\ pc # "failed"
        /\ IF \/ api_status \in {"nonzero", "raises"}
              \/ Stripped(api_body) = <<>>
              \/ Stripped(api_body) = <<BodyLine("null", 0)>>
           THEN IsFallback(upstream_notes)
           ELSE upstream_notes = FirstLines(Stripped(api_body), 50)

C23_Witness ==
    /\ api_status = "ok"
    /\ Len(api_body) = 53
    /\ api_body[1].text = ""
    /\ Len(upstream_notes) = 50
    /\ upstream_notes[50] = BodyLine("line", 50)
    /\ pc = "done"

\* ------------------------------------------------------------------------
\* Custom notes: manual dry runs with custom notes, for any log
\* ------------------------------------------------------------------------
InitCustom ==
    /\ env \in Envs
    /\ env.GITHUB_TOKEN
    /\ env.TRIGGER_TYPE = "workflow_dispatch"
    /\ env.VERSION_TYPE \in VersionType
    /\ env.DRY_RUN = "true"
    /\ ~IsBlank(env.CUSTOM_NOTES)
    /\ env.PR_TITLE = NoText
    /\ head = 1
    /\ remote = [n \in {Ver(1, 0, 0)} |-> 1]
    /\ local = remote
    /\ releases = {}
    /\ InitRun
    /\ history \in Logs(MaxLog)
    /\ api_body = <<>>
    /\ runs = 1
    /\ prev = None

SpecCustom == InitCustom /\ [][Decide]_vars

\* the notes of a manual run with custom notes have been rendered
CustomRendered ==
    /\ config.context = "manual"
    /\ config.custom_notes # NoText
    /\ notes # NoneStr

\* C24: in the manual context with custom notes, the notes are the fixed
\* heading, the custom text unchanged, the usage block and the manual
\* footer, whatever the commit history: the commit log is not read, and no
\* section of changes, statistics or version recommendation is emitted.
C24_CustomNotesVerbatim ==
    CustomRendered =>
        /\ Len(document) = 4
        /\ document[1].kind = "heading" /\ document[1].text = "What's New"
        /\ document[2].kind = "custom"
        /\ document[2].description = config.custom_notes
        /\ document[3] = usage
        /\ document[4] = footer("manual")
        /\ \A i \in DOMAIN log : log[i] # "git_log"
        /\ log_read = NoneStr
        /\ commits = <<>>
        /\ sections = <<>>
        /\ suggested_version_type = NoneStr
        /\ \A i \in DOMAIN document : document[i].kind \notin {"entry", "stat"}

C24_Witness ==
    /\ CustomRendered
    /\ pc = "done"
    /\ Len(history) = 2
    /\ env.CUSTOM_NOTES = <<" ", "first", " ", "line", "\n", "second", "\n">>
    /\ document[2].description = <<"first", " ", "line", "\n", "second">>

\* the generic notes: heading, `Various improvements and updates`, usage
\* block and manual footer
IsGeneric(doc) ==
    /\ Len(doc) = 5
    /\ doc[1].kind = "heading" /\ doc[1].text = "What's Changed"
    /\ doc[2].kind = "heading"
    /\ doc[3].kind = "entry"
    /\ doc[3].description = <<"Various improvements and updates">>
    /\ doc[4] = usage
    /\ doc[5] = footer("manual")

\* the run is manual and has gone through _generate_automatic_notes
AutomaticCalled ==
    /\ config.context = "manual"
    /\ config.custom_notes = NoText
    /\ notes # NoneStr

\* the notes step of a manual run neither fails nor ends the run
NotesStepProceeds ==
    (pc = "notes" /\ config.context = "manual") =>
        /\ pc' = "publish"
        /\ exit' = exit
        /\ failure' = failure
        /\ document' # <<>>

\* a manual run ends with a non-zero status only for a missing token or
\* for the failure of a command of the publish step
OnlyFatalCauses ==
    (config.context = "manual" /\ exit = 1) =>
        \/ ~env.GITHUB_TOKEN /\ log = <<>>
        \/ failure # None /\ failure.cmd \in Mutating

\* C26: the notes step of a manual run never fails and never ends the run:
\* when the read of the commit log fails or returns nothing, or when
\* rendering raises, _generate_automatic_notes returns the generic notes
\* and the run goes on to the publish step; a run ends with a non-zero
\* status only for a configuration error or the failure of a command of
\* the publish step.
C26_NotesNeverFatal ==
    /\ [](AutomaticCalled =>
            /\ (log_read = "failed" \/ commits = <<>> \/ notes = "generic")
                  => IsGeneric(document)
            /\ notes \in {"generic", "automatic"})
    /\ []OnlyFatalCauses
    /\ [][NotesStepProceeds]_vars

C26_Witness ==
    /\ AutomaticCalled
    /\ log_read = "ok"
    /\ commits # <<>>
    /\ notes = "generic"
    /\ IsGeneric(document)
    /\ pc = "done"
    /\ exit = 0
    /\ ~config.dry_run

\* the previous run was live and failed after `git tag -a` had created the
\* tag of its version, before the release was created
FailedAfterTag ==
    /\ prev # None
    /\ prev.env.DRY_RUN = "false"
    /\ prev.pc = "failed"
    /\ prev.failure # None
    /\ prev.failure.cmd \in
          {"git_push", "git_tag_f", "git_push_force", "gh_release_create"}

\* the same, after `git push origin <version>` had succeeded
FailedAfterPush == FailedAfterTag /\ prev.failure.cmd # "git_push"

LaterLiveRun == env.DRY_RUN = "false"

Process ==
    [pc |-> pc, log |-> log, version |-> version, list_ok |-> list_ok,
     local |-> local, notes |-> notes, document |-> document,
     failure |-> failure, exit |-> exit]

\* Two live manual runs with custom notes, started on fresh clones of the
\* same remote.
InitTwo ==
    /\ env \in RunEnvs
    /\ env.GITHUB_TOKEN
    /\ env.TRIGGER_TYPE = "workflow_dispatch"
    /\ env.CUSTOM_NOTES # NoText
    /\ env.DRY_RUN = "false"
    /\ head = 1
    /\ remote \in {EmptyTags, [n \in {Ver(1, 0, 0)} |-> 1]}
    /\ local = remote
    /\ releases = DOMAIN remote
    /\ pc = "start"
    /\ log = <<>>
    /\ version = None
    /\ list_ok = NoneStr
    /\ dependency = None
    /\ api_status = NoneStr
    /\ upstream = NoneStr
    /\ upstream_notes = <<>>
    /\ notes = NoneStr
    /\ document = <<>>
    /\ log_read = NoneStr
    /\ commits = <<>>
    /\ suggested_version_type = NoneStr
    /\ sections = <<>>
    /\ failure = None
    /\ exit = -1
    /\ start = Snapshot
    /\ history = <<>>
    /\ api_body = <<>>
    /\ runs = 1
    /\ prev = None
    /\ runner = 1
    /\ other = Process

\* The scheduler: the process that takes the next step changes.
switch ==
    /\ other # None
    /\ other' = Process
    /\ runner' = 3 - runner
    /\ pc' = other.pc
    /\ log' = other.log
    /\ version' = other.version
    /\ list_ok' = other.list_ok
    /\ local' = other.local
    /\ notes' = other.notes
    /\ document' = other.document
    /\ failure' = other.failure
    /\ exit' = other.exit
    /\ UNCHANGED <<env, head, remote, releases, start, runs, prev, history,
                   api_body, dependency, api_status, upstream, upstream_notes,
                   log_read, commits, suggested_version_type, sections>>

NextTwo ==
    \/ Decide
    \/ Publish
    \/ switch

SpecTwo == InitTwo /\ [][NextTwo]_vars

\* both runs have computed the same version
SameVersion ==
    /\ other # None
    /\ version # None
    /\ other.version = version

ReachedRelease(l) == \E i \in DOMAIN l : l[i] = "gh_release_create"

\* a version tag of the remote stays on the commit it was pushed for
TagSetOnce ==
    \A n \in DOMAIN remote :
        n.shape = "ver" => n \in DOMAIN remote' /\ remote'[n] = remote[n]

\* the release of the version the two runs computed is created once
ReleasedOnce ==
    (SameVersion /\ version \in releases) => releases' = releases

\* when one of the two runs has ended well, the other ends with a fatal
\* error
OtherRunFatal ==
    /\ (pc = "done" /\ other.pc \in {"done", "failed"}) =>
          other.pc = "failed" /\ other.exit = 1
    /\ (other.pc = "done" /\ pc \in {"done", "failed"}) =>
          pc = "failed" /\ exit = 1

\* C30: of two live runs that start from the same tags, compute the same
\* version and interleave their steps, the remote tag of the version is set
\* once and never moved, at most one run reaches the creation of the
\* release, and the other run ends with a fatal error.
C30_ConcurrentRuns ==
    /\ [][TagSetOnce]_vars
    /\ [](SameVersion =>
            /\ ~(ReachedRelease(log) /\ ReachedRelease(other.log))
            /\ OtherRunFatal)

\* C30 amended: the remote tag of the version is set once and never moved,
\* at most one run creates the release, and when one run ends well the
\* other ends with a fatal error; both runs can reach the creation of the
\* release, and then the second one fails there.
C30_OneReleaseCreated ==
    /\ [][TagSetOnce]_vars
    /\ [][ReleasedOnce]_vars
    /\ [](SameVersion =>
            /\ ~(pc = "done" /\ other.pc = "done")
            /\ OtherRunFatal
            /\ (ReachedRelease(log) /\ ReachedRelease(other.log)
                  /\ pc \in {"done", "failed"}
                  /\ other.pc \in {"done", "failed"}) =>
                     \/ failure # None /\ failure.cmd = "gh_release_create"
                     \/ other.failure # None
                           /\ other.failure.cmd = "gh_release_create")

C30_Witness ==
    /\ SameVersion
    /\ ReachedRelease(log)
    /\ ReachedRelease(other.log)
    /\ pc = "failed"
    /\ failure.cmd = "gh_release_create"
    /\ failure.cause = "exists"
    /\ other.pc = "done"
    /\ version \in releases
    /\ remote[version] = head

====
